---------------------------- MODULE Spec2Model ----------------------------
(***************************************************************************)
(* Model of the false-positive filtering script rule_base_filtering.py and *)
(* of the image lookup get_image.py.                                       *)
(*                                                                         *)
(* Numbers.  The attribute columns are floats; every literal of the code   *)
(* has at most two decimals, so attribute values are modelled as integers  *)
(* in hundredths (3.4 is 340, 525.69 is 52569).                            *)
(*                                                                         *)
(* Geometry.  The world is one-dimensional: a geometry is a closed         *)
(* interval <<lo, hi>> of integer coordinates, a point is <<x, x>>.        *)
(* A coordinate is a number IN a coordinate reference system: the same     *)
(* place has coordinate x in the geographic CRS and 150 * x in the metric  *)
(* CRS, so that geometries in different CRSs do not compare and a buffer   *)
(* of 150 means something different in each.                               *)
(***************************************************************************)
EXTENDS Integers, Sequences, FiniteSets

VARIABLES
    pc,                 \* position of the running function
    ee,                 \* main's parameter ee
    path_file,          \* the content of the file at args.path
    layer_files,        \* the content of each file under data/geojson_to_filter_out
    order,              \* the layers in the order main hands them to exclude_on_location
    df,                 \* main's df
    polygons,           \* main's *_polygon variables, by layer
    geojson,            \* the local GeoDataFrame of get_geojson / get_geojson_with_buffer
    k,                  \* the number of layers the current loop of calls has finished
    filtered_df,        \* main's filtered_df
    intersection,       \* exclude_on_location's local intersection (last call)
    intersection_unique,\* exclude_on_location's local intersection_unique (last call)
    stdout,             \* the lines exclude_on_location printed: <<name, count>>
    excluded_by,        \* history: row index -> the name of the call that dropped the row
    terrain_label,      \* exclude_on_land_cover: the labels apply() has computed so far
    exc,                \* the exception that ended the run, or "none"
    output,             \* the content of output/final_data.geojson, or Null
    bbox,               \* get_tif_image's bbox
    items_lst,          \* get_tif_image's items_lst (the result of the catalog search)
    image_latest        \* get_tif_image's return value, or NotCalled

vars == <<pc, ee, path_file, layer_files, order, df, polygons, geojson, k,
          filtered_df, intersection, intersection_unique, stdout, excluded_by,
          terrain_label, exc, output, bbox, items_lst, image_latest>>

image_vars == <<bbox, items_lst, image_latest>>

---------------------------------------------------------------------------
(* Bounds of the model *)

\* the largest number of rows of an input file
MaxDet == 2
\* the largest number of items a catalog search returns
MaxItems == 3

---------------------------------------------------------------------------
(* Values *)

Null == [null |-> TRUE]
\* the float NaN that read_file gives a feature whose property is null: it is
\* unequal to every number and no comparison with it holds
NaN == -999999999

\* between(3.4, 20.49), in hundredths
AspectLo == 340
AspectHi == 2049
\* between(525.69, 8106.53), in hundredths
AreaLo == 52569
AreaHi == 810653
\* distance_to_nearest_road != 0
RoadZero == 0
\* the buffers main asks for, in metres
CoastlineBuffer == 150
AirportsBuffer == 1500
\* terrain_label.isin([0])
WaterLabel == 0

Geographic == "EPSG:4326"
Metric == "EPSG:32633"
CRSs == {Geographic, Metric}

\* how many coordinate units of crs one geographic unit is
Scale(crs) == IF crs = Metric THEN 150 ELSE 1

BaseColumns == {"rectangle_aspect_ratio", "distance_to_nearest_road", "area", "geometry"}

Range(s) == {s[i] : i \in DOMAIN s}

SeqsUpTo(S, n) == UNION {[1..m -> S] : m \in 0..n}

RECURSIVE SelectIdx(_, _, _)
\* the positions i of s, in order, with keep[i]
SelectIdx(s, keep, i) ==
    IF i > Len(s) THEN <<>>
    ELSE (IF keep[i] THEN <<i>> ELSE <<>>) \o SelectIdx(s, keep, i + 1)

---------------------------------------------------------------------------
(* pandas / geopandas *)

\* mutant: between(..., inclusive="neither")
between_exclusive(x, lo, hi) == x # NaN /\ lo < x /\ x < hi

\* Series.between(lo, hi): inclusive on both sides
between(x, lo, hi) == x # NaN /\ lo <= x /\ x <= hi

\* DataFrame.reset_index(drop=True): the index becomes 0, 1, 2, ...
reset_index(frame) ==
    [frame EXCEPT !.rows = [i \in 1..Len(frame.rows) |->
                              [frame.rows[i] EXCEPT !.index = i - 1]]]

\* DataFrame.loc[mask] / DataFrame[mask]: the rows at which the boolean mask is
\* true, in order, each under the index it had
loc(frame, mask) ==
    LET sel == SelectIdx(frame.rows, mask, 1)
    IN  [frame EXCEPT !.rows = [n \in 1..Len(sel) |-> frame.rows[sel[n]]]]

\* gpd.read_file of a detection file: its features under a fresh RangeIndex
read_file(file) ==
    [crs |-> file.crs, columns |-> BaseColumns,
     rows |-> [i \in 1..Len(file.features) |->
                 [index |-> i - 1,
                  rectangle_aspect_ratio |-> file.features[i].rectangle_aspect_ratio,
                  distance_to_nearest_road |-> file.features[i].distance_to_nearest_road,
                  area |-> file.features[i].area,
                  geometry |-> file.features[i].geometry]]]

\* df.rectangle_aspect_ratio.between(3.4, 20.49)
aspect_mask(frame) ==
    [i \in 1..Len(frame.rows) |->
        between(frame.rows[i].rectangle_aspect_ratio, AspectLo, AspectHi)]

\* filtered_df.distance_to_nearest_road != 0
road_mask(frame) ==
    [i \in 1..Len(frame.rows) |-> frame.rows[i].distance_to_nearest_road # RoadZero]

\* filtered_df["area"].between(525.69, 8106.53)
area_mask(frame) ==
    [i \in 1..Len(frame.rows) |-> between(frame.rows[i].area, AreaLo, AreaHi)]

filter_by_postprocess_rule(frame) ==
    LET a == reset_index(loc(frame, aspect_mask(frame)))
        b == reset_index(loc(a, road_mask(a)))
    IN  loc(b, area_mask(b))

---------------------------------------------------------------------------
(* Reference layers: a GeoDataFrame of geometries only, [crs, rows] *)

\* gpd.read_file of a layer file
read_layer(file) == [crs |-> file.crs, rows |-> file.features]

\* a coordinate of crs `from` expressed in crs `to`
Transform(x, from, to) == (x * Scale(to)) \div Scale(from)

\* GeoDataFrame.to_crs
to_crs(gdf, crs) ==
    [crs |-> crs,
     rows |-> [j \in 1..Len(gdf.rows) |->
                 <<Transform(gdf.rows[j][1], gdf.crs, crs),
                   Transform(gdf.rows[j][2], gdf.crs, crs)>>]]

\* GeoSeries.buffer(d), wrapped again by gpd.GeoDataFrame(geometry=...): every
\* geometry grows by d coordinate units of the CRS it is in
buffer(gdf, d) ==
    [crs |-> gdf.crs,
     rows |-> [j \in 1..Len(gdf.rows) |-> <<gdf.rows[j][1] - d, gdf.rows[j][2] + d>>]]

\* mutant: the layer is buffered in a geographic CRS
buffer_crs_degrees == Geographic

\* the CRS get_geojson_with_buffer buffers in: to_crs(epsg=32633)
buffer_crs == Metric

\* mutant: the interiors must overlap, touching does not count
intersects_strictly(a, b) == a[1] < b[2] /\ b[1] < a[2]

\* shapely's intersects on two intervals: they share at least one point. The
\* numbers are compared as they are, whatever CRS each is in.
intersects(a, b) == a[1] <= b[2] /\ b[1] <= a[2]

RECURSIVE Flatten(_)
Flatten(ss) == IF ss = <<>> THEN <<>> ELSE Head(ss) \o Flatten(Tail(ss))

\* the rows sjoin gives for one left row: one per right geometry it intersects
RowMatches(row, polygon) ==
    LET hit == [j \in 1..Len(polygon.rows) |-> intersects(row.geometry, polygon.rows[j])]
        sel == SelectIdx(polygon.rows, hit, 1)
    IN  [n \in 1..Len(sel) |-> [index |-> row.index, index_right |-> sel[n] - 1]]

\* sjoin(df, polygon, how="inner", predicate="intersects"): one row per
\* intersecting (left row, right geometry) pair, under the left row's index. The
\* rows of one left row are listed in the order of the right geometries; the
\* code reads nothing but the index of the result.
sjoin(frame, polygon) ==
    Flatten([i \in 1..Len(frame.rows) |-> RowMatches(frame.rows[i], polygon)])

\* mutant: the duplicated rows are not removed
keep_duplicated(joined) == joined

\* intersection[~intersection.index.duplicated(keep="first")]
drop_duplicated(joined) ==
    LET first == [n \in 1..Len(joined) |->
                    \A m \in 1..(n - 1) : joined[m].index # joined[n].index]
        sel == SelectIdx(joined, first, 1)
    IN  [n \in 1..Len(sel) |-> joined[sel[n]]]

IndexOf(joined) == {joined[n].index : n \in 1..Len(joined)}

\* mutant: the index of the intersection is read as row positions
drop_positions(frame, unique) ==
    loc(frame, [i \in 1..Len(frame.rows) |-> (i - 1) \notin IndexOf(unique)])

\* mutant: the mask is not negated
keep_isin(frame, unique) ==
    loc(frame, [i \in 1..Len(frame.rows) |-> frame.rows[i].index \in IndexOf(unique)])

\* df[~df.index.isin(intersection_unique.index)]
drop_isin(frame, unique) ==
    loc(frame, [i \in 1..Len(frame.rows) |-> frame.rows[i].index \notin IndexOf(unique)])

exclude_on_location(frame, polygon, name) ==
    drop_isin(frame, drop_duplicated(sjoin(frame, polygon)))

---------------------------------------------------------------------------
(* Land cover *)

\* the labels of the Dynamic World label band the model distinguishes
Labels == {0, 1, 2}

\* filtered_df["terrain_label"] = ...: the frame with the new column
with_terrain_label(frame, labels) ==
    [crs |-> frame.crs,
     columns |-> frame.columns \cup {"terrain_label"},
     rows |-> [i \in 1..Len(frame.rows) |->
                 [index |-> frame.rows[i].index,
                  rectangle_aspect_ratio |-> frame.rows[i].rectangle_aspect_ratio,
                  distance_to_nearest_road |-> frame.rows[i].distance_to_nearest_road,
                  area |-> frame.rows[i].area,
                  geometry |-> frame.rows[i].geometry,
                  terrain_label |-> labels[i]]]]

\* mutant: the label tested for is not the water label
IsBuiltOrTrees(row) == row.terrain_label \in {1}

IsWater(row) == row.terrain_label \in {WaterLabel}

\* filtered_df[~filtered_df["terrain_label"].isin([0])]
drop_water(frame) ==
    loc(frame, [i \in 1..Len(frame.rows) |-> ~IsWater(frame.rows[i])])

exclude_on_land_cover(frame, labels) == drop_water(with_terrain_label(frame, labels))

---------------------------------------------------------------------------
(* The layers of main, in the order it loads them (lines 165-170) and hands *)
(* them to exclude_on_location (lines 175-180)                              *)

LayerNames == <<"coastline", "water", "airport", "parks", "mountains", "roads">>
Layers == DOMAIN LayerNames
\* the layers main loads through get_geojson_with_buffer
Buffered == {1, 3}
BufferDistance(l) == IF l = 1 THEN CoastlineBuffer ELSE AirportsBuffer
ConfiguredOrder == <<1, 2, 3, 4, 5, 6>>

---------------------------------------------------------------------------
(* Inputs.  Places are written in geographic units and scaled into the CRS *)
(* of the file that holds them.                                            *)

InCrs(g, crs) == <<g[1] * Scale(crs), g[2] * Scale(crs)>>

DetPlaces == {<<11, 13>>, <<15, 15>>, <<21, 22>>, <<38, 41>>, <<100, 101>>}

\* the rows of a detection file in crs: every place with attributes that pass the
\* postprocess rule, and one row whose area (500.00) does not
Features(crs) ==
    {[rectangle_aspect_ratio |-> 1000, distance_to_nearest_road |-> 2500,
      area |-> 100000, geometry |-> InCrs(g, crs)] : g \in DetPlaces}
    \cup {[rectangle_aspect_ratio |-> 1000, distance_to_nearest_road |-> 2500,
           area |-> 50000, geometry |-> InCrs(<<11, 13>>, crs)]}

FilesOf(crs, features) ==
    {[crs |-> crs, features |-> fs] : fs \in SeqsUpTo(features, MaxDet)}

DetectionFiles == UNION {FilesOf(c, Features(c)) : c \in CRSs}

\* the geometries of the six layer files, by variant
LayerPlaces(v) ==
    CASE v = 1 -> << <<<<10, 12>>, <<12, 14>>>>, <<<<20, 22>>>>, <<<<50, 50>>>>,
                     <<<<70, 75>>, <<73, 78>>>>, <<>>, <<<<21, 30>>>> >>
      [] v = 2 -> << <<<<16, 17>>>>, <<>>, <<<<30, 30>>, <<52, 52>>>>,
                     <<<<0, 5>>>>, <<<<60, 110>>>>, <<<<38, 39>>, <<39, 41>>>> >>
      [] OTHER -> << <<>>, <<<<11, 11>>, <<13, 21>>>>, <<>>,
                     <<<<14, 14>>>>, <<<<11, 13>>>>, <<>> >>

World(crs, v) ==
    [l \in Layers |->
        [crs |-> crs,
         features |-> [j \in 1..Len(LayerPlaces(v)[l]) |-> InCrs(LayerPlaces(v)[l][j], crs)]]]

Worlds == {World(c, v) : c \in CRSs, v \in {1, 2, 3}}

NotCalled == [called |-> FALSE]

IndexSet(frame) == {frame.rows[i].index : i \in 1..Len(frame.rows)}

NoReasons == [i \in 0..(MaxDet - 1) |-> "none"]

\* the rows of before that after no longer holds get reason name
Reasons(old, before, after, name) ==
    [i \in DOMAIN old |->
        IF i \in IndexSet(before) \ IndexSet(after) THEN name ELSE old[i]]

---------------------------------------------------------------------------
(* main of rule_base_filtering.py *)

ImageIdle == bbox = Null /\ items_lst = <<>> /\ image_latest = NotCalled

Init ==
    /\ pc = "load_data"
    /\ ee \in BOOLEAN
    /\ path_file \in DetectionFiles
    /\ layer_files \in Worlds
    /\ order = ConfiguredOrder
    /\ df = Null
    /\ polygons = [l \in Layers |-> Null]
    /\ geojson = Null
    /\ k = 0
    /\ filtered_df = Null
    /\ intersection = <<>>
    /\ intersection_unique = <<>>
    /\ stdout = <<>>
    /\ excluded_by = NoReasons
    /\ terrain_label = <<>>
    /\ exc = "none"
    /\ output = Null
    /\ ImageIdle

\* df = load_data(args.path)
LoadData ==
    /\ pc = "load_data"
    /\ df' = read_file(path_file)
    /\ pc' = "read_layer"
    /\ k' = 0
    /\ UNCHANGED <<ee, path_file, layer_files, order, polygons, geojson, filtered_df,
                   intersection, intersection_unique, stdout, excluded_by,
                   terrain_label, exc, output, image_vars>>

\* geojson = gpd.read_file(path), in get_geojson and in get_geojson_with_buffer
ReadLayer ==
    /\ pc = "read_layer"
    /\ geojson' = read_layer(layer_files[k + 1])
    /\ pc' = IF (k + 1) \in Buffered THEN "to_metric" ELSE "to_crs"
    /\ UNCHANGED <<ee, path_file, layer_files, order, df, polygons, k, filtered_df,
                   intersection, intersection_unique, stdout, excluded_by,
                   terrain_label, exc, output, image_vars>>

\* the layer is loaded: on to the next layer, or to the postprocess rule
Loaded(gdf) ==
    /\ polygons' = [polygons EXCEPT ![k + 1] = gdf]
    /\ geojson' = Null
    /\ k' = IF k + 1 = Len(LayerNames) THEN 0 ELSE k + 1
    /\ pc' = IF k + 1 = Len(LayerNames) THEN "filter" ELSE "read_layer"
    /\ UNCHANGED <<ee, path_file, layer_files, order, df, filtered_df,
                   intersection, intersection_unique, stdout, excluded_by,
                   terrain_label, exc, output, image_vars>>

\* get_geojson: polygon = geojson.to_crs(df.crs); return polygon
ToCrs ==
    /\ pc = "to_crs"
    /\ Loaded(to_crs(geojson, df.crs))

\* get_geojson_with_buffer: geojson_data = geojson.to_crs(epsg=32633)
ToMetric ==
    /\ pc = "to_metric"
    /\ geojson' = to_crs(geojson, buffer_crs)
    /\ pc' = "buffer"
    /\ UNCHANGED <<ee, path_file, layer_files, order, df, polygons, k, filtered_df,
                   intersection, intersection_unique, stdout, excluded_by,
                   terrain_label, exc, output, image_vars>>

\* get_geojson_with_buffer: geojson_buffer = geojson_data.buffer(buffer_distance)
Buffer ==
    /\ pc = "buffer"
    /\ geojson' = buffer(geojson, BufferDistance(k + 1))
    /\ pc' = "match_crs"
    /\ UNCHANGED <<ee, path_file, layer_files, order, df, polygons, k, filtered_df,
                   intersection, intersection_unique, stdout, excluded_by,
                   terrain_label, exc, output, image_vars>>

\* get_geojson_with_buffer: geojson_buffer_gdf.to_crs(df.crs); return
MatchCrs ==
    /\ pc = "match_crs"
    /\ Loaded(to_crs(geojson, df.crs))

\* filtered_df = filter_by_postprocess_rule(df)
Filter ==
    /\ pc = "filter"
    /\ filtered_df' = filter_by_postprocess_rule(df)
    /\ pc' = "exclude"
    /\ k' = 0
    /\ UNCHANGED <<ee, path_file, layer_files, order, df, polygons, geojson,
                   intersection, intersection_unique, stdout, excluded_by,
                   terrain_label, exc, output, image_vars>>

\* mutant: every call is handed the prefiltered frame, not the result of the
\* call before it
ExcludeOnLocation_first_frame ==
    /\ pc = "exclude"
    /\ LET l == order[k + 1]
           first == filter_by_postprocess_rule(df)
           joined == sjoin(first, polygons[l])
           unique == drop_duplicated(joined)
           result == exclude_on_location(first, polygons[l], LayerNames[l])
       IN  /\ intersection' = joined
           /\ intersection_unique' = unique
           /\ stdout' = Append(stdout, <<LayerNames[l], Len(unique)>>)
           /\ filtered_df' = result
           /\ excluded_by' = Reasons(excluded_by, first, result, LayerNames[l])
    /\ k' = IF k + 1 = Len(order) THEN 0 ELSE k + 1
    /\ pc' = IF k + 1 = Len(order) THEN "if_ee" ELSE "exclude"
    /\ UNCHANGED <<ee, path_file, layer_files, order, df, polygons, geojson,
                   terrain_label, exc, output, image_vars>>

\* filtered_df = exclude_on_location(filtered_df, <layer>_polygon, "<layer>")
ExcludeOnLocation ==
    /\ pc = "exclude"
    /\ LET l == order[k + 1]
           joined == sjoin(filtered_df, polygons[l])
           unique == drop_duplicated(joined)
           result == exclude_on_location(filtered_df, polygons[l], LayerNames[l])
       IN  /\ intersection' = joined
           /\ intersection_unique' = unique
           /\ stdout' = Append(stdout, <<LayerNames[l], Len(unique)>>)
           /\ filtered_df' = result
           /\ excluded_by' = Reasons(excluded_by, filtered_df, result, LayerNames[l])
    /\ k' = IF k + 1 = Len(order) THEN 0 ELSE k + 1
    /\ pc' = IF k + 1 = Len(order) THEN "if_ee" ELSE "exclude"
    /\ UNCHANGED <<ee, path_file, layer_files, order, df, polygons, geojson,
                   terrain_label, exc, output, image_vars>>

\* if ee:
IfEe ==
    /\ pc = "if_ee"
    /\ pc' = IF ee THEN "apply" ELSE "save"
    /\ UNCHANGED <<ee, path_file, layer_files, order, df, polygons, geojson, k,
                   filtered_df, intersection, intersection_unique, stdout,
                   excluded_by, terrain_label, exc, output, image_vars>>

\* one call of get_label_from_ee made by apply(): the service answers with a label
GetLabelFromEe ==
    /\ pc = "apply"
    /\ Len(terrain_label) < Len(filtered_df.rows)
    /\ \E label \in Labels : terrain_label' = Append(terrain_label, label)
    /\ UNCHANGED <<pc, ee, path_file, layer_files, order, df, polygons, geojson, k,
                   filtered_df, intersection, intersection_unique, stdout,
                   excluded_by, exc, output, image_vars>>

\* mutant: the exception is caught, the row gets no label and apply() goes on
GetLabelRaises_caught ==
    /\ pc = "apply"
    /\ Len(terrain_label) < Len(filtered_df.rows)
    /\ exc' = "EEException"
    /\ terrain_label' = Append(terrain_label, NaN)
    /\ UNCHANGED <<pc, ee, path_file, layer_files, order, df, polygons, geojson, k,
                   filtered_df, intersection, intersection_unique, stdout,
                   excluded_by, output, image_vars>>

\* one call of get_label_from_ee: getInfo() raises (a timeout, a failed request);
\* nothing between it and the top of the script catches the exception
GetLabelRaises ==
    /\ pc = "apply"
    /\ Len(terrain_label) < Len(filtered_df.rows)
    /\ exc' = "EEException"
    /\ pc' = "aborted"
    /\ UNCHANGED <<ee, path_file, layer_files, order, df, polygons, geojson, k,
                   filtered_df, intersection, intersection_unique, stdout,
                   excluded_by, terrain_label, output, image_vars>>

\* exclude_on_land_cover once apply() has a label for every row
ExcludeOnLandCover ==
    /\ pc = "apply"
    /\ Len(terrain_label) = Len(filtered_df.rows)
    /\ LET result == exclude_on_land_cover(filtered_df, terrain_label)
       IN  /\ filtered_df' = result
           /\ excluded_by' = Reasons(excluded_by, filtered_df, result, "land_cover")
    /\ pc' = "save"
    /\ UNCHANGED <<ee, path_file, layer_files, order, df, polygons, geojson, k,
                   intersection, intersection_unique, stdout, terrain_label, exc,
                   output, image_vars>>

\* save_to_geojson(filtered_df)
SaveToGeojson ==
    /\ pc = "save"
    /\ output' = filtered_df
    /\ pc' = "done"
    /\ UNCHANGED <<ee, path_file, layer_files, order, df, polygons, geojson, k,
                   filtered_df, intersection, intersection_unique, stdout,
                   excluded_by, terrain_label, exc, image_vars>>

Next ==
    \/ LoadData
    \/ ReadLayer
    \/ ToCrs
    \/ ToMetric
    \/ Buffer
    \/ MatchCrs
    \/ Filter
    \/ ExcludeOnLocation
    \/ IfEe
    \/ GetLabelFromEe
    \/ GetLabelRaises
    \/ ExcludeOnLandCover
    \/ SaveToGeojson

Spec == Init /\ [][Next]_vars

---------------------------------------------------------------------------
(* filter_by_postprocess_rule on its own: the input frame is drawn from    *)
(* attribute values on both sides of every threshold of the rule           *)

AspectValues == {339, 340, 2049, 2050}
RoadValues == {NaN, -500, 0, 500}
AreaValues == {50000, 52569, 810653, 810654}

AttributeFeatures ==
    {[rectangle_aspect_ratio |-> a, distance_to_nearest_road |-> d, area |-> s,
      geometry |-> <<11, 13>>] : a \in AspectValues, d \in RoadValues, s \in AreaValues}

Idle ==
    /\ ee = FALSE
    /\ layer_files = [l \in Layers |-> Null]
    /\ geojson = Null
    /\ k = 0
    /\ intersection = <<>>
    /\ intersection_unique = <<>>
    /\ stdout = <<>>
    /\ excluded_by = NoReasons
    /\ terrain_label = <<>>
    /\ exc = "none"
    /\ output = Null
    /\ ImageIdle

\* main has loaded df and the layers and is about to call filter_by_postprocess_rule
InitFilter ==
    /\ pc = "filter"
    /\ path_file \in FilesOf(Geographic, AttributeFeatures)
    /\ df = read_file(path_file)
    /\ order = ConfiguredOrder
    /\ polygons = [l \in Layers |-> [crs |-> Geographic, rows |-> <<>>]]
    /\ filtered_df = Null
    /\ Idle

SpecFilter == InitFilter /\ [][Filter]_vars

\* the attributes and geometry of the rows of a frame, in order, without the index
Content(frame) ==
    [i \in 1..Len(frame.rows) |->
        [rectangle_aspect_ratio |-> frame.rows[i].rectangle_aspect_ratio,
         distance_to_nearest_road |-> frame.rows[i].distance_to_nearest_road,
         area |-> frame.rows[i].area,
         geometry |-> frame.rows[i].geometry]]

AspectInRange(f) == f.rectangle_aspect_ratio >= 340 /\ f.rectangle_aspect_ratio <= 2049
AreaInRange(f) == f.area >= 52569 /\ f.area <= 810653
GreaterThanZero(x) == x # NaN /\ x > 0
RuleAsClaimed(f) ==
    AspectInRange(f) /\ GreaterThanZero(f.distance_to_nearest_road) /\ AreaInRange(f)
RuleAsCoded(f) == AspectInRange(f) /\ f.distance_to_nearest_road # 0 /\ AreaInRange(f)

\* C4 as stated: the attribute filter keeps exactly the rows whose aspect ratio is
\* in [3.4, 20.49], whose road distance is strictly greater than 0 and whose area
\* is in [525.69, 8106.53], in their order.
C4_KeepsIffGreaterThanZero ==
    pc = "exclude" => Content(filtered_df) = SelectSeq(path_file.features, RuleAsClaimed)

\* C4 amended: the attribute filter keeps exactly the rows whose aspect ratio is in
\* [3.4, 20.49], whose road distance is not equal to 0 (a negative distance
\* passes) and whose area is in [525.69, 8106.53], in their order; every other
\* row is removed.
C4_KeepsIffNotZero ==
    pc = "exclude" => Content(filtered_df) = SelectSeq(path_file.features, RuleAsCoded)

\* C4 witness: a frame of two rows of which the filter removed one for its area
\* of 500.00 and kept the other, whose road distance is negative
C4_Witness ==
    /\ pc = "exclude"
    /\ Len(df.rows) = 2
    /\ df.rows[1].area = 50000
    /\ df.rows[1].distance_to_nearest_road > 0
    /\ AspectInRange(df.rows[1])
    /\ Len(filtered_df.rows) = 1
    /\ filtered_df.rows[1].distance_to_nearest_road < 0

---------------------------------------------------------------------------
(* exclude_on_location on its own: main is about to run the exclusion      *)
(* calls; the frame and the layers are drawn from places that intersect    *)
(* one, two or no geometry of a layer, and the three calls are made in any *)
(* order                                                                   *)

ExcludeDetPlaces == {<<11, 11>>, <<12, 12>>, <<15, 16>>, <<30, 31>>}

ExcludeFeatures ==
    {[rectangle_aspect_ratio |-> 1000, distance_to_nearest_road |-> 2500,
      area |-> 100000, geometry |-> g] : g \in ExcludeDetPlaces}
    \cup {[rectangle_aspect_ratio |-> 1000, distance_to_nearest_road |-> 2500,
           area |-> 50000, geometry |-> <<11, 11>>]}

ExcludeLayerRows == {<<>>, <<<<10, 12>>>>, <<<<12, 20>>>>, <<<<10, 12>>, <<12, 20>>>>}

ExcludeLayers == {1, 2, 3}

Orders(S) ==
    {p \in [1..Cardinality(S) -> S] : \A i, j \in DOMAIN p : i # j => p[i] # p[j]}

InitExclude ==
    /\ pc = "exclude"
    /\ path_file \in FilesOf(Geographic, ExcludeFeatures)
    /\ df = read_file(path_file)
    /\ order \in Orders(ExcludeLayers)
    /\ \E rows \in [ExcludeLayers -> ExcludeLayerRows] :
          polygons = [l \in Layers |->
                        IF l \in ExcludeLayers
                        THEN [crs |-> Geographic, rows |-> rows[l]] ELSE Null]
    /\ filtered_df = filter_by_postprocess_rule(df)
    /\ Idle

SpecExclude == InitExclude /\ [][ExcludeOnLocation]_vars

---------------------------------------------------------------------------
(* What the claims are stated with *)

\* the frame the exclusion calls start from
Prefiltered == filter_by_postprocess_rule(df)

\* the exclusion calls are over or under way
AfterFilter == pc \in {"exclude", "if_ee", "apply", "save", "done", "aborted"}

\* the number of exclusion calls made so far
Applied == IF pc = "exclude" THEN k ELSE Len(order)

\* two intervals share a point
SharePoint(a, b) == \E x \in a[1]..a[2] : b[1] <= x /\ x <= b[2]

\* the geometry g intersects at least one geometry of the layer
Hits(g, polygon) == \E j \in 1..Len(polygon.rows) : SharePoint(g, polygon.rows[j])

\* the layers among the first n of ord whose polygon the geometry intersects
HitLayers(g, ord, n) == {l \in {ord[m] : m \in 1..n} : Hits(g, polygons[l])}

RECURSIVE RunExclusions(_, _, _)
\* the frame after exclude_on_location with the layers ord[n], ord[n+1], ...
RunExclusions(frame, ord, n) ==
    IF n > Len(ord) THEN frame
    ELSE RunExclusions(exclude_on_location(frame, polygons[ord[n]], LayerNames[ord[n]]),
                       ord, n + 1)

RECURSIVE RunReasons(_, _, _, _)
\* the reasons after those calls
RunReasons(reasons, frame, ord, n) ==
    IF n > Len(ord) THEN reasons
    ELSE LET after == exclude_on_location(frame, polygons[ord[n]], LayerNames[ord[n]])
         IN  RunReasons(Reasons(reasons, frame, after, LayerNames[ord[n]]), after, ord, n + 1)

\* the layers of this run in ascending order
RECURSIVE Ascending(_)
Ascending(S) ==
    IF S = {} THEN <<>>
    ELSE LET m == CHOOSE x \in S : \A y \in S : x <= y
         IN  <<m>> \o Ascending(S \ {m})

\* the row of the frame under index i
RowOf(frame, i) == CHOOSE r \in Range(frame.rows) : r.index = i

\* the rows exclusion has dropped so far
Excluded == IF AfterFilter THEN IndexSet(Prefiltered) \ IndexSet(filtered_df) ELSE {}

---------------------------------------------------------------------------
(* Claims about exclude_on_location, under SpecExclude *)

\* C1: whatever the order in which the layers are handed to exclude_on_location,
\* the frame left after the last call is the one the ascending order leaves (the
\* same rows retained, the same rows excluded); the layer a row was dropped for
\* differs from the ascending order's only for a row that intersects more than
\* one layer.
C1_OrderIndependent ==
    pc = "if_ee" =>
        LET asc == Ascending(Range(order))
            reasons == RunReasons(NoReasons, Prefiltered, asc, 1)
        IN  /\ filtered_df = RunExclusions(Prefiltered, asc, 1)
            /\ \A i \in IndexSet(Prefiltered) :
                   excluded_by[i] # reasons[i] =>
                       Cardinality(HitLayers(RowOf(Prefiltered, i).geometry,
                                             order, Len(order))) > 1

\* C1 witness: the calls were made in another order than the ascending one, one
\* row was dropped for another layer than the ascending order drops it for, and
\* another row was retained
C1_Witness ==
    /\ pc = "if_ee"
    /\ order # Ascending(Range(order))
    /\ \E i \in IndexSet(Prefiltered) :
          excluded_by[i] # RunReasons(NoReasons, Prefiltered, Ascending(Range(order)), 1)[i]
    /\ Len(filtered_df.rows) >= 1

\* C5: after any number of exclusion calls a row of the prefiltered frame is
\* still in the frame exactly if its geometry shares no point with any geometry
\* of the layers handed over so far, and a row is dropped for a layer only if
\* its geometry shares a point with a geometry of that layer.
C5_ExcludedIffIntersects ==
    pc \in {"exclude", "if_ee"} =>
        \A i \in IndexSet(Prefiltered) :
            LET hit == HitLayers(RowOf(Prefiltered, i).geometry, order, Applied)
            IN  /\ (i \in IndexSet(filtered_df)) <=> (hit = {})
                /\ (i \in Excluded) <=> (excluded_by[i] # "none")
                /\ excluded_by[i] # "none" =>
                       \E l \in hit : LayerNames[l] = excluded_by[i]

\* C5 witness: all calls are made; a row that only touches a layer's geometry at
\* one point was dropped and a row that intersects no layer was retained
C5_Witness ==
    /\ pc = "if_ee"
    /\ \E i \in Excluded : RowOf(Prefiltered, i).geometry = <<12, 12>>
    /\ \E i \in IndexSet(filtered_df) : RowOf(Prefiltered, i).geometry = <<30, 31>>

\* the first position of the join that holds index i
FirstMatch(joined, i) ==
    CHOOSE m \in DOMAIN joined :
        joined[m].index = i /\ \A n \in 1..(m - 1) : joined[n].index # i

\* C6: after a call of exclude_on_location the deduplicated intersection holds
\* each intersecting row index once, with the first row the join gave for it; the
\* count the call printed is the number of distinct intersecting rows, and these
\* are the rows the call dropped.
C6_CountedOnce ==
    (pc \in {"exclude", "if_ee"} /\ stdout # <<>>) =>
        LET name == stdout[Len(stdout)][1]
            count == stdout[Len(stdout)][2]
        IN  /\ \A m, n \in DOMAIN intersection_unique :
                   m # n => intersection_unique[m].index # intersection_unique[n].index
            /\ IndexOf(intersection_unique) = IndexOf(intersection)
            /\ \A n \in DOMAIN intersection_unique :
                   intersection_unique[n] =
                       intersection[FirstMatch(intersection, intersection_unique[n].index)]
            /\ count = Cardinality(IndexOf(intersection))
            /\ {i \in DOMAIN excluded_by : excluded_by[i] = name} = IndexOf(intersection)

\* C6 witness: the join gave two rows for one detection (it intersects two
\* geometries of the layer) and the call counted one
C6_Witness ==
    /\ pc \in {"exclude", "if_ee"}
    /\ stdout # <<>>
    /\ Len(intersection) = 2
    /\ intersection[1].index = intersection[2].index
    /\ stdout[Len(stdout)][2] = 1

---------------------------------------------------------------------------
(* Claims about a run of main, under Spec *)

\* the rows of a frame without a terrain_label column
Bare(rows) ==
    [i \in 1..Len(rows) |->
        [index |-> rows[i].index,
         rectangle_aspect_ratio |-> rows[i].rectangle_aspect_ratio,
         distance_to_nearest_road |-> rows[i].distance_to_nearest_road,
         area |-> rows[i].area,
         geometry |-> rows[i].geometry]]

\* the first layer, in the order of the calls made so far, that the geometry intersects
FirstHit(g) ==
    LET n == CHOOSE n \in 1..Applied :
                 /\ Hits(g, polygons[order[n]])
                 /\ \A m \in 1..(n - 1) : ~Hits(g, polygons[order[m]])
    IN  order[n]

\* C2: a row that exclusion has dropped stays dropped through every later call and
\* stage and keeps the layer it was dropped for, which is the first layer in the
\* order of the calls that its geometry intersects; no dropped row is in the
\* output.
C2_Monotonic ==
    /\ [][AfterFilter =>
             /\ IndexSet(filtered_df') \subseteq IndexSet(filtered_df)
             /\ \A i \in DOMAIN excluded_by :
                    excluded_by[i] # "none" => excluded_by'[i] = excluded_by[i]]_vars
    /\ [](AfterFilter =>
             \A i \in IndexSet(Prefiltered) : (i \in Excluded) <=> (excluded_by[i] # "none"))
    /\ [](pc \in {"exclude", "if_ee"} =>
             \A i \in Excluded :
                 excluded_by[i] = LayerNames[FirstHit(RowOf(Prefiltered, i).geometry)])
    /\ [](pc = "done" => IndexSet(output) \cap Excluded = {})

\* C2 witness: a row that intersects two layers (water, then roads) was dropped by
\* the first and both calls are over
C2_Witness ==
    /\ pc = "if_ee"
    /\ \E i \in Excluded :
          /\ excluded_by[i] = "water"
          /\ Hits(RowOf(Prefiltered, i).geometry, polygons[6])

\* the counts the exclusion calls printed, summed
RECURSIVE SumCounts(_)
SumCounts(lines) == IF lines = <<>> THEN 0 ELSE Head(lines)[2] + SumCounts(Tail(lines))

NotExcluded(row) == excluded_by[row.index] = "none"

\* the row intersects no geometry of the layers handed over so far
HitsNothing(row) == HitLayers(row.geometry, order, Applied) = {}

BufferIn(l, crs) ==
    IF l \in Buffered THEN (BufferDistance(l) * Scale(crs)) \div Scale(Metric) ELSE 0

\* the geometries of layer l's file, buffered, in coordinates of crs
Expected(l, crs) ==
    LET f == layer_files[l]
    IN  [j \in 1..Len(f.features) |->
            <<Transform(f.features[j][1], f.crs, crs) - BufferIn(l, crs),
              Transform(f.features[j][2], f.crs, crs) + BufferIn(l, crs)>>]

\* C7: a layer is buffered while it is in the metric CRS and is still in it when
\* it is reprojected to the CRS of the detections; every layer handed to an
\* intersection test is in the CRS of the detections, and its coordinates are
\* those of the file's geometries (with the buffer in metres) in that CRS.
C7_LayerCrs ==
    /\ pc \in {"buffer", "match_crs"} => geojson.crs = Metric
    /\ pc = "exclude" =>
          /\ polygons[order[k + 1]].crs = filtered_df.crs
          /\ polygons[order[k + 1]].rows = Expected(order[k + 1], filtered_df.crs)

\* C7 witness: the coastline file and the detections are both in the geographic
\* CRS, the layer has been to the metric CRS and back and is about to be tested
C7_Witness ==
    /\ pc = "exclude"
    /\ k = 0
    /\ layer_files[1].crs = Geographic
    /\ filtered_df.crs = Geographic
    /\ Len(polygons[1].rows) = 2
    /\ Len(filtered_df.rows) >= 1

\* the output of the run with the land-cover stage disabled
DisabledOutput == RunExclusions(Prefiltered, order, 1)

NoWater == \A n \in DOMAIN terrain_label : terrain_label[n] # WaterLabel

\* C8 as stated: the output of a run with the land-cover stage enabled in which
\* every query returns a non-water label is the output of the run with the stage
\* disabled: same rows, same columns, same values.
C8_Identical ==
    (pc = "done" /\ ee /\ NoWater) => output = DisabledOutput

\* C8 amended: the output of a run with the land-cover stage enabled in which
\* every query returns a non-water label has the rows of the output of the run
\* with the stage disabled, with the same values in its columns, and one column
\* more, terrain_label, which holds the labels.
C8_SameRowsOneMoreColumn ==
    /\ (pc = "done" /\ ~ee) => output = DisabledOutput
    /\ (pc = "done" /\ ee /\ NoWater) =>
          /\ output.crs = DisabledOutput.crs
          /\ output.columns = DisabledOutput.columns \cup {"terrain_label"}
          /\ "terrain_label" \notin DisabledOutput.columns
          /\ Bare(output.rows) = DisabledOutput.rows
          /\ \A i \in 1..Len(output.rows) : output.rows[i].terrain_label = terrain_label[i]

\* C8 witness: a run with the stage enabled wrote two rows, whose labels are two
\* different non-water labels
C8_Witness ==
    /\ pc = "done"
    /\ ee
    /\ NoWater
    /\ Len(output.rows) = 2
    /\ terrain_label = <<1, 2>>

\* C9 as stated: a failed classification query never aborts the run.
C9_NeverAborts == exc # "none" => pc # "aborted"

\* C9 amended: a classification query is made once per row and is not retried: a
\* query that fails ends the run there, with the rows after it not classified and
\* no output written; the output is written only by a run in which no query
\* failed.
C9_FailureAborts ==
    /\ (exc # "none") <=> (pc = "aborted")
    /\ pc = "aborted" =>
          /\ ee
          /\ output = Null
          /\ Len(terrain_label) < Len(filtered_df.rows)
          /\ ~ENABLED Next
    /\ output # Null => exc = "none"
    /\ (pc \in {"save", "done"} /\ ee) => Len(terrain_label) = Len(DisabledOutput.rows)

\* C9 witness: the query for the second of two rows failed after the first row
\* was classified
C9_Witness ==
    /\ pc = "aborted"
    /\ Len(filtered_df.rows) = 2
    /\ Len(terrain_label) = 1

---------------------------------------------------------------------------
(* get_image.py: get_tif_image.  A bounding box is <<minx, miny, maxx, maxy>>; *)
(* an item of the catalog has an id, a footprint and the year of the image.    *)

Min(a, b) == IF a <= b THEN a ELSE b
Max(a, b) == IF a >= b THEN a ELSE b

\* bbox_geo_item followed by shape(): the rectangle of the four numbers
bbox_geo_item(b) ==
    [minx |-> Min(b[1], b[3]), miny |-> Min(b[2], b[4]),
     maxx |-> Max(b[1], b[3]), maxy |-> Max(b[2], b[4])]

\* shape(item.geometry).intersection(shape(area_shape)).area
area_of_overlap(item, area_shape) ==
    LET g == bbox_geo_item(item.geometry)
        w == Min(g.maxx, area_shape.maxx) - Max(g.minx, area_shape.minx)
        h == Min(g.maxy, area_shape.maxy) - Max(g.miny, area_shape.miny)
    IN  IF w > 0 /\ h > 0 THEN w * h ELSE 0

\* the sort key: (area_of_overlap(item, area_shape), item.properties['naip:year'])
SortKey(item, area_shape) == <<area_of_overlap(item, area_shape), item.year>>

\* Python's order on two tuples of two numbers
TupleLess(a, b) == a[1] < b[1] \/ (a[1] = b[1] /\ a[2] < b[2])

\* whether a goes before b in a sort by key, ascending or (reverse) descending
Before(a, b, reverse) ==
    IF reverse THEN TupleLess(b.key, a.key) ELSE TupleLess(a.key, b.key)

RECURSIVE InsertInto(_, _, _)
\* e put into a sorted list behind every entry that does not come after it
InsertInto(e, sorted, reverse) ==
    IF sorted = <<>> THEN <<e>>
    ELSE IF Before(e, Head(sorted), reverse) THEN <<e>> \o sorted
    ELSE <<Head(sorted)>> \o InsertInto(e, Tail(sorted), reverse)

RECURSIVE StableSort(_, _, _)
\* the first n entries of the list, sorted by key; entries whose keys are equal
\* keep their order, with reverse=True too
StableSort(entries, n, reverse) ==
    IF n = 0 THEN <<>>
    ELSE InsertInto(entries[n], StableSort(entries, n - 1, reverse), reverse)

Keyed(items, area_shape) ==
    [i \in 1..Len(items) |-> [key |-> SortKey(items[i], area_shape), item |-> items[i]]]

\* mutant: sorted(items_lst, key=...) without reverse=True
sorted_ascending(items, area_shape) ==
    LET s == StableSort(Keyed(items, area_shape), Len(items), FALSE)
    IN  [i \in 1..Len(s) |-> s[i].item]

\* sorted(items_lst, key=lambda item: (...), reverse=True)
sorted_reverse(items, area_shape) ==
    LET s == StableSort(Keyed(items, area_shape), Len(items), TRUE)
    IN  [i \in 1..Len(s) |-> s[i].item]

BBoxes == {<<0, 0, 4, 4>>, <<2, 2, 6, 6>>}
Footprints == {<<0, 0, 2, 2>>, <<0, 0, 4, 3>>, <<3, 3, 8, 8>>}
Years == {2018, 2021}

\* what catalog.search(...).item_collection() may hold: up to MaxItems items
SearchResults ==
    UNION {{[i \in 1..n |-> [id |-> i, geometry |-> g[i], year |-> y[i]]] :
               g \in [1..n -> Footprints], y \in [1..n -> Years]} : n \in 0..MaxItems}

PipelineIdle ==
    /\ path_file = Null
    /\ df = Null
    /\ order = ConfiguredOrder
    /\ polygons = [l \in Layers |-> Null]
    /\ filtered_df = Null
    /\ ee = FALSE
    /\ layer_files = [l \in Layers |-> Null]
    /\ geojson = Null
    /\ k = 0
    /\ intersection = <<>>
    /\ intersection_unique = <<>>
    /\ stdout = <<>>
    /\ excluded_by = NoReasons
    /\ terrain_label = <<>>
    /\ exc = "none"
    /\ output = Null

\* get_tif_image has the result of the search
InitImage ==
    /\ pc = "get_tif_image"
    /\ bbox \in BBoxes
    /\ items_lst \in SearchResults
    /\ image_latest = NotCalled
    /\ PipelineIdle

\* if len(items_lst) == 0: ... return None
ReturnNone ==
    /\ pc = "get_tif_image"
    /\ Len(items_lst) = 0
    /\ image_latest' = Null
    /\ pc' = "returned"
    /\ UNCHANGED <<ee, path_file, layer_files, order, df, polygons, geojson, k,
                   filtered_df, intersection, intersection_unique, stdout,
                   excluded_by, terrain_label, exc, output, bbox, items_lst>>

\* image_latest = sorted(...)[0]; return image_latest
ReturnLatest ==
    /\ pc = "get_tif_image"
    /\ Len(items_lst) # 0
    /\ image_latest' = sorted_reverse(items_lst, bbox_geo_item(bbox))[1]
    /\ pc' = "returned"
    /\ UNCHANGED <<ee, path_file, layer_files, order, df, polygons, geojson, k,
                   filtered_df, intersection, intersection_unique, stdout,
                   excluded_by, terrain_label, exc, output, bbox, items_lst>>

NextImage ==
    \/ ReturnNone
    \/ ReturnLatest

SpecImage == InitImage /\ [][NextImage]_vars

\* the unit squares inside a rectangle <<minx, miny, maxx, maxy>>
Squares(b) == {<<x, y>> : x \in b[1]..(b[3] - 1), y \in b[2]..(b[4] - 1)}

\* the area two rectangles share
Shared(a, b) == Cardinality(Squares(a) \cap Squares(b))

\* C10: get_tif_image returns None exactly if the search found no item; otherwise
\* it returns one of the items found, and no item found shares a larger area
\* with the bounding box, or the same area with a later year.
C10_LatestBestMatch ==
    pc = "returned" =>
        /\ (image_latest = Null) <=> (items_lst = <<>>)
        /\ items_lst # <<>> =>
              /\ image_latest \in Range(items_lst)
              /\ \A it \in Range(items_lst) :
                     \/ Shared(it.geometry, bbox) < Shared(image_latest.geometry, bbox)
                     \/ /\ Shared(it.geometry, bbox) = Shared(image_latest.geometry, bbox)
                        /\ it.year <= image_latest.year

\* C10 witness: of three items found the one returned is neither the first nor
\* the latest: it shares the largest area with the bounding box
C10_Witness ==
    /\ pc = "returned"
    /\ Len(items_lst) = 3
    /\ image_latest = items_lst[2]
    /\ image_latest.year < items_lst[1].year
    /\ Shared(image_latest.geometry, bbox) > Shared(items_lst[3].geometry, bbox)

===========================================================================
